---------------------------- MODULE Spec2Model ----------------------------
(***************************************************************************)
(* Model of the inspection system: the cycle orchestrator                  *)
(* (src/src/core/controller.py), the mock camera, the three pipeline        *)
(* stages, the aggregator, the reporter, the metrics collector and the      *)
(* run loop with its SIGINT handler (src/main.py).                          *)
(*                                                                         *)
(* Real numbers (confidences, scores) are integers in units of 1e-5.       *)
(* A Python dict is a sequence of [key, value] records in insertion order. *)
(* Durations are not modelled; of time the model keeps whether            *)
(* MAX_CYCLE_TIMEOUT has elapsed since the capture tasks were submitted.   *)
(***************************************************************************)
EXTENDS Integers, Sequences, FiniteSets, TLC

(* ------------------------------ bounds --------------------------------- *)

\* cycles run by run_cycles in the model (the program runs 10)
NumCycles == 2

\* detections one infer call may generate (the program draws 0..4)
MaxDetections == 1

\* caller threads of the metrics stress run
NumThreads == 2

\* metrics calls each caller thread makes
CallsPerThread == 2

(* ------------------------- program constants --------------------------- *)

\* InspectionSystem.__init__: the two cameras
Devices == {"CAM_01", "CAM_02"}

\* _capture_with_retry(camera, max_retries=3)
MaxRetries == 3

\* 1.0 in the model's fixed-point unit
One == 100000

\* Postprocessor.CONFIDENCE_THRESHOLD = 0.7
CONFIDENCE_THRESHOLD == 70000

\* ResultAggregator.PASS_THRESHOLD = 0.75
PASS_THRESHOLD == 75000

\* Postprocessor.SEVERITY_THRESHOLDS, in dict order
SEVERITY_THRESHOLDS ==
    << [level |-> "minor",    low |-> 70000, high |-> 80000],
       [level |-> "major",    low |-> 80000, high |-> 90000],
       [level |-> "critical", low |-> 90000, high |-> 100000] >>

\* the confidence the mock inference gives a detection in the orchestrator
\* model (the program draws random.uniform(0.5, 0.99))
ConfSamples == {85000}

\* Python None
None == [camera_id |-> "None", frame_number |-> 0]

(* ------------------------------ state ---------------------------------- *)

VARIABLES
    pc,               \* main thread: position in run_cycles / execute_cycle
    cycle_id,         \* run_cycles loop variable
    running,          \* InspectionSystem.running
    cameras,          \* InspectionController.cameras (their ids)
    frames,           \* _parallel_capture: frames dict
    collected,        \* futures already yielded by as_completed in this stage
    results,          \* _process_frames: results dict
    aggCalls,         \* arguments (key sets) aggregate was called with, this cycle
    report,           \* <<>> or <<report>>: generate_report's result, this cycle
    cpc,              \* capture task of each device
    attempt,          \* _capture_with_retry loop variable
    calls,            \* camera.capture() invocations made by the task
    cres,             \* value the capture task returned
    expired,          \* MAX_CYCLE_TIMEOUT has elapsed since the tasks were submitted
    timedOut,         \* the task was still running when the timeout elapsed
    active,           \* capture tasks submitted for the device and not yet finished
    frame_count,      \* Camera.frame_count
    ppc,              \* pipeline task of each captured unit
    pdets,            \* detections generated by infer for the unit
    ptmp,             \* value of inference_count loaded by "+= 1"
    pres,             \* value the pipeline task returned
    inference_count,  \* InferenceEngine.inference_count
    lock,             \* MetricsCollector._lock owner, "free" when not held
    decisions,        \* MetricsCollector.decisions
    defect_counts,    \* MetricsCollector.defect_counts
    quality_scores,   \* MetricsCollector.quality_scores
    camera_failures,  \* MetricsCollector.camera_failures
    total_failures,   \* MetricsCollector.total_failures
    sigpc,            \* SIGINT handler position
    printed,          \* summaries printed by _print_summary
    spc,              \* caller threads of the metrics stress run: position, operation
    sleft,            \* caller threads: calls still to make
    stmp,             \* caller threads: value loaded by "+= 1"
    issued,           \* calls issued so far, per operation
    post_pc,          \* Postprocessor.process called on its own: position
    post_in,          \* process: detections (the inference result's list)
    post_list,        \* process: filtered, then classified
    post_result,      \* <<>> or <<result>>: the dict process returned
    agg_pc,           \* ResultAggregator.aggregate called on its own: position
    agg_in,           \* aggregate: camera_results
    agg_result,       \* <<>> or <<result>>: the dict aggregate returned
    agg_report        \* <<>> or <<report>>: generate_report's dict for agg_result

vars == << pc, cycle_id, running, cameras, frames, collected, results, aggCalls,
           report, cpc, attempt, calls, cres, expired, timedOut, active, frame_count,
           ppc, pdets, ptmp, pres, inference_count,
           lock, decisions, defect_counts, quality_scores, camera_failures,
           total_failures, sigpc, printed, spc, sleft, stmp, issued,
           post_pc, post_in, post_list, post_result, agg_pc, agg_in, agg_result,
           agg_report >>

mainVars    == << pc, cycle_id, running, cameras, frames, collected, results, aggCalls,
                  report >>
captureVars == << cpc, attempt, calls, cres, expired, timedOut, active, frame_count >>
pipeVars    == << ppc, pdets, ptmp, pres, inference_count >>
metricVars  == << decisions, defect_counts, quality_scores, camera_failures,
                  total_failures >>
signalVars  == << sigpc, printed >>
stressVars  == << spc, sleft, stmp, issued >>
postVars    == << post_pc, post_in, post_list, post_result >>
aggVars     == << agg_pc, agg_in, agg_result, agg_report >>

(* ----------------------- sequences and dicts --------------------------- *)

RECURSIVE SeqSum(_)
SeqSum(s) == IF s = <<>> THEN 0 ELSE Head(s) + SeqSum(Tail(s))

RECURSIVE SeqMin(_)
SeqMin(s) == IF Len(s) = 1 THEN Head(s)
             ELSE LET m == SeqMin(Tail(s)) IN IF Head(s) <= m THEN Head(s) ELSE m

RECURSIVE SeqCount(_, _)
SeqCount(s, x) == IF s = <<>> THEN 0
                  ELSE (IF Head(s) = x THEN 1 ELSE 0) + SeqCount(Tail(s), x)

RECURSIVE Concat(_)
Concat(ss) == IF ss = <<>> THEN <<>> ELSE Head(ss) \o Concat(Tail(ss))

\* keys of a dict
Keys(dict) == { dict[i].key : i \in 1..Len(dict) }

\* dict[k]
Get(dict, k) == dict[CHOOSE i \in 1..Len(dict) : dict[i].key = k].value

\* dict[k] = v: replaces in place, appends a new key
Put(dict, k, v) ==
    IF k \in Keys(dict)
    THEN [i \in 1..Len(dict) |-> IF dict[i].key = k THEN [key |-> k, value |-> v]
                                 ELSE dict[i]]
    ELSE Append(dict, [key |-> k, value |-> v])

\* Python truthiness of a capture task's value: None is falsy, a frame dict truthy
Truthy(frame) == frame # None

(* ---------------------------- Postprocessor ---------------------------- *)

\* Python round(x, 3) on a value in units of 1e-5, halves to even
Round3(x) ==
    LET q == x \div 100
        r == x % 100
    IN  IF r < 50 THEN q * 100
        ELSE IF r > 50 THEN (q + 1) * 100
        ELSE IF q % 2 = 0 THEN q * 100 ELSE (q + 1) * 100

\* faulty variant: the threshold itself is excluded (> instead of >=)
filter_detections_strict(detections) ==
    SelectSeq(detections, LAMBDA det : det.confidence > CONFIDENCE_THRESHOLD)

filter_detections(detections) ==
    SelectSeq(detections, LAMBDA det : det.confidence >= CONFIDENCE_THRESHOLD)

\* the loop over SEVERITY_THRESHOLDS.items(): first band with low <= c < high,
\* "minor" when no band matches
RECURSIVE severity_from(_, _)
severity_from(confidence, i) ==
    IF i > Len(SEVERITY_THRESHOLDS) THEN "minor"
    ELSE IF SEVERITY_THRESHOLDS[i].low <= confidence
            /\ confidence < SEVERITY_THRESHOLDS[i].high
         THEN SEVERITY_THRESHOLDS[i].level
         ELSE severity_from(confidence, i + 1)

classify_severity(detections) ==
    [i \in 1..Len(detections) |->
        [detection_id |-> detections[i].detection_id,
         confidence   |-> detections[i].confidence,
         severity     |-> severity_from(detections[i].confidence, 1)]]

\* severity_weights.get(severity, 0.2)
severity_weight(severity) ==
    CASE severity = "minor"    -> 10000
      [] severity = "major"    -> 30000
      [] severity = "critical" -> 60000
      [] OTHER                 -> 20000

\* faulty variant: the score is not capped at 0.0
calculate_quality_score_uncapped(detections) ==
    IF detections = <<>> THEN One
    ELSE LET total_penalty ==
                 SeqSum([i \in 1..Len(detections) |->
                             severity_weight(detections[i].severity)])
         IN  One - total_penalty

calculate_quality_score(detections) ==
    IF detections = <<>> THEN One
    ELSE LET total_penalty ==
                 SeqSum([i \in 1..Len(detections) |->
                             severity_weight(detections[i].severity)])
             quality_score ==
                 IF One - total_penalty > 0 THEN One - total_penalty ELSE 0
         IN  Round3(quality_score)

\* Postprocessor.process
postprocessor_process(detections, camera_id) ==
    LET filtered   == filter_detections(detections)
        classified == classify_severity(filtered)
    IN  [camera_id           |-> camera_id,
         detections          |-> classified,
         quality_score       |-> calculate_quality_score(classified),
         total_detections    |-> Len(detections),
         filtered_detections |-> Len(classified)]

(* ---------------------------- ResultAggregator ------------------------- *)

\* faulty variant: the score of the camera that finished first is taken
calculate_aggregated_score_first(scores) == IF scores = <<>> THEN 0 ELSE scores[1]

calculate_aggregated_score(scores) == IF scores = <<>> THEN 0 ELSE SeqMin(scores)

\* severities outside the three counted ones are skipped
count_severities(detections) ==
    [sev \in {"minor", "major", "critical"} |->
        Cardinality({ i \in 1..Len(detections) : detections[i].severity = sev })]

\* faulty variant: all_detections is replaced by each camera's list instead of
\* extended with it, so it ends as the last camera's detections
aggregate_last_camera(camera_results) ==
    LET n == Len(camera_results)
        scores == [i \in 1..n |-> camera_results[i].value.quality_score]
        all_detections == camera_results[n].value.detections
        aggregated_score == calculate_aggregated_score(scores)
    IN  [aggregated_score |-> Round3(aggregated_score),
         decision         |-> IF aggregated_score >= PASS_THRESHOLD THEN "PASS" ELSE "FAIL",
         camera_summaries |->
             [i \in 1..n |->
                 [key   |-> camera_results[i].key,
                  value |-> [score   |-> camera_results[i].value.quality_score,
                             defects |-> Len(camera_results[i].value.detections),
                             severities |->
                                 count_severities(camera_results[i].value.detections)]]],
         total_defects    |-> Len(all_detections),
         severity_counts  |-> count_severities(all_detections),
         cameras_used     |-> n]

\* ResultAggregator.aggregate on a non-empty dict; the empty dict raises
\* ValueError (see process_frames_return)
aggregate(camera_results) ==
    LET n == Len(camera_results)
        scores == [i \in 1..n |-> camera_results[i].value.quality_score]
        all_detections == Concat([i \in 1..n |-> camera_results[i].value.detections])
        aggregated_score == calculate_aggregated_score(scores)
    IN  [aggregated_score |-> Round3(aggregated_score),
         decision         |-> IF aggregated_score >= PASS_THRESHOLD THEN "PASS" ELSE "FAIL",
         camera_summaries |->
             [i \in 1..n |->
                 [key   |-> camera_results[i].key,
                  value |-> [score   |-> camera_results[i].value.quality_score,
                             defects |-> Len(camera_results[i].value.detections),
                             severities |->
                                 count_severities(camera_results[i].value.detections)]]],
         total_defects    |-> Len(all_detections),
         severity_counts  |-> count_severities(all_detections),
         cameras_used     |-> n]

(* ---------------------------- InspectionReporter ----------------------- *)

generate_report(cycle, camera_results, aggregated_result) ==
    [cycle_id           |-> cycle,
     cameras            |->
         [i \in 1..Len(camera_results) |->
             [key   |-> camera_results[i].key,
              value |-> [quality_score |-> camera_results[i].value.quality_score,
                         defects_found |-> Len(camera_results[i].value.detections)]]],
     aggregated_score   |-> aggregated_result.aggregated_score,
     decision           |-> aggregated_result.decision,
     defects_found      |-> aggregated_result.total_defects,
     severity_breakdown |-> aggregated_result.severity_counts,
     cameras_used       |-> aggregated_result.cameras_used]

(* ---------------------------- MetricsCollector ------------------------- *)

empty_summary ==
    [total_cycles |-> 0, successful_cycles |-> 0, failed_cycles |-> 0,
     pass_count |-> 0, fail_count |-> 0, total_defects |-> 0,
     camera_failures |-> [d \in Devices |-> 0]]

\* body of get_summary, under the lock (rates and timings left out)
get_summary ==
    LET total_cycles == Len(decisions)
    IN  IF total_cycles = 0 THEN empty_summary
        ELSE [total_cycles      |-> total_cycles,
              successful_cycles |-> total_cycles,
              failed_cycles     |-> total_failures,
              pass_count        |-> SeqCount(decisions, "PASS"),
              fail_count        |-> SeqCount(decisions, "FAIL"),
              total_defects     |-> SeqSum(defect_counts),
              camera_failures   |-> camera_failures]

(* ------------------------------ initial state -------------------------- *)

\* names of the caller threads of the metrics stress run
ThreadNames == << "T1", "T2", "T3", "T4", "T5", "T6" >>

StressThreads == { ThreadNames[i] : i \in 1..NumThreads }

\* operations a caller thread issues: record_failure, record_camera_failure(d)
StressOps == {"record_failure"} \cup Devices

\* InspectionSystem.__init__ up to the cameras: everything but the camera list
InitOrchestrator ==
    /\ pc = "loop" /\ cycle_id = 0 /\ running = TRUE
    /\ frames = <<>> /\ collected = {} /\ results = <<>>
    /\ aggCalls = <<>> /\ report = <<>>
    /\ cpc = [d \in Devices |-> "idle"]
    /\ attempt = [d \in Devices |-> 0]
    /\ calls = [d \in Devices |-> 0]
    /\ cres = [d \in Devices |-> None]
    /\ expired = FALSE
    /\ timedOut = [d \in Devices |-> FALSE]
    /\ active = [d \in Devices |-> 0]
    /\ frame_count = [d \in Devices |-> 0]
    /\ ppc = [d \in Devices |-> "idle"]
    /\ pdets = [d \in Devices |-> <<>>]
    /\ ptmp = [d \in Devices |-> 0]
    /\ pres = [d \in Devices |-> <<>>]
    /\ inference_count = 0
    /\ sigpc = "none" /\ printed = <<>>

\* MetricsCollector.__init__
InitMetrics ==
    /\ lock = "free"
    /\ decisions = <<>> /\ defect_counts = <<>> /\ quality_scores = <<>>
    /\ camera_failures = [d \in Devices |-> 0]
    /\ total_failures = 0

\* no metrics stress run
InitNoStress ==
    /\ spc = << >> /\ sleft = << >> /\ stmp = << >>
    /\ issued = [op \in StressOps |-> 0]

\* no Postprocessor.process call of its own
InitNoPost ==
    /\ post_pc = "idle" /\ post_in = <<>> /\ post_list = <<>> /\ post_result = <<>>

\* no ResultAggregator.aggregate call of its own
InitNoAgg ==
    /\ agg_pc = "idle" /\ agg_in = <<>> /\ agg_result = <<>> /\ agg_report = <<>>

Init ==
    /\ InitOrchestrator
    /\ cameras = Devices
    /\ InitMetrics
    /\ InitNoStress
    /\ InitNoPost
    /\ InitNoAgg

(* --------------------------- MetricsCollector lock --------------------- *)

\* faulty variant: the with block is entered without waiting for the lock
lock_acquire_unguarded(owner) == lock' = owner

\* "with self._lock:" entered by owner: blocks until the lock is free
lock_acquire(owner) == lock = "free" /\ lock' = owner

lock_release == lock' = "free"

(* ------------------------------ run loop ------------------------------- *)

\* the main thread runs its own code only while no signal handler is on its stack
MainRuns == sigpc = "none"

\* run_cycles: next iteration of the loop, execute_cycle, _parallel_capture up to
\* the submission of one capture task per camera
run_cycles_next ==
    /\ MainRuns /\ pc = "loop" /\ cycle_id < NumCycles /\ running
    /\ cycle_id' = cycle_id + 1
    /\ frames' = <<>> /\ collected' = {} /\ results' = <<>>
    /\ aggCalls' = <<>> /\ report' = <<>>
    /\ cpc' = [d \in Devices |-> IF d \in cameras THEN "running" ELSE "idle"]
    /\ active' = [d \in Devices |-> IF d \in cameras THEN active[d] + 1 ELSE active[d]]
    /\ attempt' = [d \in Devices |-> 0]
    /\ calls' = [d \in Devices |-> 0]
    /\ cres' = [d \in Devices |-> None]
    /\ expired' = FALSE
    /\ timedOut' = [d \in Devices |-> FALSE]
    /\ ppc' = [d \in Devices |-> "idle"]
    /\ pdets' = [d \in Devices |-> <<>>]
    /\ ptmp' = [d \in Devices |-> 0]
    /\ pres' = [d \in Devices |-> <<>>]
    /\ pc' = "capture"
    /\ UNCHANGED << cameras, running, frame_count, inference_count, lock, metricVars,
                    signalVars, stressVars, postVars, aggVars >>

(* ------------------------------ capture tasks -------------------------- *)

\* Camera.capture returns a frame: frame_count += 1, _generate_mock_frame
camera_capture_ok(d) ==
    /\ cpc[d] = "running"
    /\ calls' = [calls EXCEPT ![d] = @ + 1]
    /\ frame_count' = [frame_count EXCEPT ![d] = @ + 1]
    /\ cres' = [cres EXCEPT ![d] = [camera_id |-> d, frame_number |-> frame_count'[d]]]
    /\ cpc' = [cpc EXCEPT ![d] = "done"]
    /\ active' = [active EXCEPT ![d] = @ - 1]
    /\ UNCHANGED << mainVars, attempt, expired, timedOut, pipeVars, lock, metricVars,
                    signalVars, stressVars, postVars, aggVars >>

\* faulty variant: capture counts the frame before the failure test
camera_capture_raise_counting(d) ==
    /\ cpc[d] = "running"
    /\ calls' = [calls EXCEPT ![d] = @ + 1]
    /\ frame_count' = [frame_count EXCEPT ![d] = @ + 1]
    /\ IF attempt[d] < MaxRetries - 1
       THEN /\ attempt' = [attempt EXCEPT ![d] = @ + 1]
            /\ UNCHANGED << cpc, cres, active >>
       ELSE /\ cres' = [cres EXCEPT ![d] = None]
            /\ cpc' = [cpc EXCEPT ![d] = "done"]
            /\ active' = [active EXCEPT ![d] = @ - 1]
            /\ UNCHANGED attempt
    /\ UNCHANGED << mainVars, expired, timedOut, pipeVars, lock,
                    metricVars, signalVars, stressVars, postVars, aggVars >>

\* faulty variant: the last-attempt test is off by one (attempt < max_retries)
camera_capture_raise_offbyone(d) ==
    /\ cpc[d] = "running"
    /\ calls' = [calls EXCEPT ![d] = @ + 1]
    /\ IF attempt[d] < MaxRetries
       THEN /\ attempt' = [attempt EXCEPT ![d] = @ + 1]
            /\ UNCHANGED << cpc, cres, active >>
       ELSE /\ cres' = [cres EXCEPT ![d] = None]
            /\ cpc' = [cpc EXCEPT ![d] = "done"]
            /\ active' = [active EXCEPT ![d] = @ - 1]
            /\ UNCHANGED attempt
    /\ UNCHANGED << mainVars, expired, timedOut, frame_count, pipeVars, lock,
                    metricVars, signalVars, stressVars, postVars, aggVars >>

\* Camera.capture raises: _capture_with_retry retries, or returns None after the
\* last attempt
camera_capture_raise(d) ==
    /\ cpc[d] = "running"
    /\ calls' = [calls EXCEPT ![d] = @ + 1]
    /\ IF attempt[d] < MaxRetries - 1
       THEN /\ attempt' = [attempt EXCEPT ![d] = @ + 1]
            /\ UNCHANGED << cpc, cres, active >>
       ELSE /\ cres' = [cres EXCEPT ![d] = None]
            /\ cpc' = [cpc EXCEPT ![d] = "done"]
            /\ active' = [active EXCEPT ![d] = @ - 1]
            /\ UNCHANGED attempt
    /\ UNCHANGED << mainVars, expired, timedOut, frame_count, pipeVars, lock,
                    metricVars, signalVars, stressVars, postVars, aggVars >>

\* Camera.capture is called and does not return (a device that never responds)
camera_capture_hang(d) ==
    /\ cpc[d] = "running"
    /\ calls' = [calls EXCEPT ![d] = @ + 1]
    /\ cpc' = [cpc EXCEPT ![d] = "hung"]
    /\ UNCHANGED << mainVars, attempt, cres, expired, timedOut, active, frame_count, pipeVars,
                    lock, metricVars, signalVars, stressVars, postVars, aggVars >>

Unfinished(d) == cpc[d] \in {"running", "hung"}

\* MAX_CYCLE_TIMEOUT seconds have passed since the capture tasks were submitted,
\* and some task is still running
timeout_elapses ==
    /\ ~expired
    /\ \E d \in Devices : Unfinished(d)
    /\ expired' = TRUE
    /\ timedOut' = [d \in Devices |-> Unfinished(d)]
    /\ UNCHANGED << mainVars, cpc, attempt, calls, cres, active, frame_count, pipeVars, lock,
                    metricVars, signalVars, stressVars, postVars, aggVars >>

(* ------------------------- capture stage, main thread ------------------ *)

\* future.result(timeout=MAX_CYCLE_TIMEOUT) on a finished future returns at once,
\* whatever the timeout: the task's value, or its exception re-raised
\* (_capture_with_retry catches every Exception, so it ends with a value)
future_result(d) == [raised |-> FALSE, value |-> cres[d]]

\* faulty variant: each frame replaces the dict instead of being added to it
parallel_capture_collect_overwriting(d) ==
    /\ MainRuns /\ pc = "capture"
    /\ d \notin collected
    /\ cpc[d] = "done"
    /\ frames' = IF Truthy(cres[d]) THEN << [key |-> d, value |-> cres[d]] >> ELSE frames
    /\ collected' = collected \cup {d}
    /\ UNCHANGED << pc, cycle_id, running, cameras, results, aggCalls, report,
                    captureVars, pipeVars, lock, metricVars, signalVars, stressVars,
                    postVars, aggVars >>

\* one iteration of "for future in as_completed(future_to_camera)": as_completed
\* (called without a timeout) yields a future only once it has finished
parallel_capture_collect(d) ==
    /\ MainRuns /\ pc = "capture"
    /\ d \notin collected
    /\ cpc[d] = "done"
    /\ LET r == future_result(d) IN
         IF r.raised
         THEN /\ lock = "free"
              /\ camera_failures' = [camera_failures EXCEPT ![d] = @ + 1]
              /\ UNCHANGED frames
         ELSE /\ frames' = IF Truthy(r.value) THEN Put(frames, d, r.value) ELSE frames
              /\ UNCHANGED camera_failures
    /\ collected' = collected \cup {d}
    /\ UNCHANGED << pc, cycle_id, running, cameras, results, aggCalls, report,
                    captureVars, pipeVars, lock, decisions, defect_counts,
                    quality_scores, total_failures, signalVars, stressVars, postVars,
                    aggVars >>

\* faulty variant: once the timeout has elapsed the stage returns what it has and
\* the executor is shut down without waiting for the tasks still running
parallel_capture_return_nowait ==
    /\ MainRuns /\ pc = "capture"
    /\ \/ collected = cameras /\ \A d \in Devices : ~Unfinished(d)
       \/ expired /\ collected = { d \in cameras : ~Unfinished(d) }
    /\ collected' = {}
    /\ cpc' = [d \in Devices |-> "idle"]
    /\ attempt' = [d \in Devices |-> 0]
    /\ calls' = [d \in Devices |-> 0]
    /\ cres' = [d \in Devices |-> None]
    /\ expired' = FALSE
    /\ timedOut' = [d \in Devices |-> FALSE]
    /\ IF frames = <<>>
       THEN /\ pc' = "record_failure"
            /\ UNCHANGED ppc
       ELSE /\ pc' = "process"
            /\ ppc' = [d \in Devices |-> IF d \in Keys(frames) THEN "preprocess" ELSE "idle"]
    /\ UNCHANGED << cameras, cycle_id, running, frames, results, aggCalls, report,
                    active, frame_count,
                    pdets, ptmp, pres, inference_count, lock, metricVars, signalVars,
                    stressVars, postVars, aggVars >>

\* faulty variant: execute_cycle does not test "if not frames"
parallel_capture_return_unchecked ==
    /\ MainRuns /\ pc = "capture"
    /\ collected = cameras
    /\ \A d \in Devices : ~Unfinished(d)
    /\ collected' = {}
    /\ cpc' = [d \in Devices |-> "idle"]
    /\ attempt' = [d \in Devices |-> 0]
    /\ calls' = [d \in Devices |-> 0]
    /\ cres' = [d \in Devices |-> None]
    /\ expired' = FALSE
    /\ timedOut' = [d \in Devices |-> FALSE]
    /\ pc' = "process"
    /\ ppc' = [d \in Devices |-> IF d \in Keys(frames) THEN "preprocess" ELSE "idle"]
    /\ UNCHANGED << cameras, cycle_id, running, frames, results, aggCalls, report,
                    active, frame_count,
                    pdets, ptmp, pres, inference_count, lock, metricVars, signalVars,
                    stressVars, postVars, aggVars >>

\* the loop is exhausted, the executor is shut down (every task has finished,
\* its locals are gone), frames is returned; execute_cycle raises on an empty
\* dict, otherwise _process_frames submits one pipeline task per captured frame
parallel_capture_return ==
    /\ MainRuns /\ pc = "capture"
    /\ collected = cameras
    /\ \A d \in Devices : ~Unfinished(d)
    /\ collected' = {}
    /\ cpc' = [d \in Devices |-> "idle"]
    /\ attempt' = [d \in Devices |-> 0]
    /\ calls' = [d \in Devices |-> 0]
    /\ cres' = [d \in Devices |-> None]
    /\ expired' = FALSE
    /\ timedOut' = [d \in Devices |-> FALSE]
    /\ IF frames = <<>>
       THEN /\ pc' = "record_failure"
            /\ UNCHANGED ppc
       ELSE /\ pc' = "process"
            /\ ppc' = [d \in Devices |-> IF d \in Keys(frames) THEN "preprocess" ELSE "idle"]
    /\ UNCHANGED << cameras, cycle_id, running, frames, results, aggCalls, report,
                    active, frame_count,
                    pdets, ptmp, pres, inference_count, lock, metricVars, signalVars,
                    stressVars, postVars, aggVars >>

(* ------------------------------ pipeline tasks ------------------------- *)

\* Preprocessor.process returns
pipeline_preprocess(d) ==
    /\ ppc[d] = "preprocess"
    /\ ppc' = [ppc EXCEPT ![d] = "infer"]
    /\ UNCHANGED << mainVars, captureVars, pdets, ptmp, pres, inference_count, lock,
                    metricVars, signalVars, stressVars, postVars, aggVars >>

\* _generate_detections: detection ids are built from inference_count as read now
generate_detections(n, conf) ==
    [i \in 1..n |-> [detection_id |-> << inference_count, i - 1 >>,
                     confidence   |-> conf[i]]]

\* InferenceEngine.infer up to the counter update
pipeline_infer(d) ==
    /\ ppc[d] = "infer"
    /\ \E n \in 0..MaxDetections : \E conf \in [1..n -> ConfSamples] :
          pdets' = [pdets EXCEPT ![d] = generate_detections(n, conf)]
    /\ ppc' = [ppc EXCEPT ![d] = "count_load"]
    /\ UNCHANGED << mainVars, captureVars, ptmp, pres, inference_count, lock,
                    metricVars, signalVars, stressVars, postVars, aggVars >>

\* "self.inference_count += 1", the load: no lock is held
pipeline_count_load(d) ==
    /\ ppc[d] = "count_load"
    /\ ptmp' = [ptmp EXCEPT ![d] = inference_count]
    /\ ppc' = [ppc EXCEPT ![d] = "count_store"]
    /\ UNCHANGED << mainVars, captureVars, pdets, pres, inference_count, lock,
                    metricVars, signalVars, stressVars, postVars, aggVars >>

\* "self.inference_count += 1", the store; infer returns
pipeline_count_store(d) ==
    /\ ppc[d] = "count_store"
    /\ inference_count' = ptmp[d] + 1
    /\ ptmp' = [ptmp EXCEPT ![d] = 0]
    /\ ppc' = [ppc EXCEPT ![d] = "postprocess"]
    /\ UNCHANGED << mainVars, captureVars, pdets, pres, lock, metricVars,
                    signalVars, stressVars, postVars, aggVars >>

\* Postprocessor.process returns; _process_single_frame returns the result
pipeline_postprocess(d) ==
    /\ ppc[d] = "postprocess"
    /\ pres' = [pres EXCEPT ![d] = << postprocessor_process(pdets[d], d) >>]
    /\ pdets' = [pdets EXCEPT ![d] = <<>>]
    /\ ppc' = [ppc EXCEPT ![d] = "done"]
    /\ UNCHANGED << mainVars, captureVars, ptmp, inference_count, lock,
                    metricVars, signalVars, stressVars, postVars, aggVars >>

\* faulty variant: a stage call that raises makes the task start over
pipeline_raise_retrying(d) ==
    /\ ppc[d] \in {"preprocess", "infer", "postprocess"}
    /\ ppc' = [ppc EXCEPT ![d] = "preprocess"]
    /\ pdets' = [pdets EXCEPT ![d] = <<>>]
    /\ UNCHANGED << mainVars, captureVars, ptmp, pres, inference_count, lock,
                    metricVars, signalVars, stressVars, postVars, aggVars >>

\* one of the three stage calls raises (a malformed unit): the task ends with
\* the exception
pipeline_raise(d) ==
    /\ ppc[d] \in {"preprocess", "infer", "postprocess"}
    /\ ppc' = [ppc EXCEPT ![d] = "failed"]
    /\ pdets' = [pdets EXCEPT ![d] = <<>>]
    /\ UNCHANGED << mainVars, captureVars, ptmp, pres, inference_count, lock,
                    metricVars, signalVars, stressVars, postVars, aggVars >>

(* ------------------------- pipeline stage, main thread ----------------- *)

\* faulty variant: every result is stored under the id of the camera submitted
\* last (the loop variable of the submission, not the future's camera)
process_frames_collect_miskeyed(d) ==
    /\ MainRuns /\ pc = "process"
    /\ d \in Keys(frames) \ collected
    /\ ppc[d] \in {"done", "failed"}
    /\ results' = IF ppc[d] = "done"
                  THEN Put(results, frames[Len(frames)].key, pres[d][1])
                  ELSE results
    /\ collected' = collected \cup {d}
    /\ pres' = [pres EXCEPT ![d] = <<>>]
    /\ UNCHANGED << pc, cycle_id, running, cameras, frames, aggCalls, report, captureVars,
                    ppc, pdets, ptmp, inference_count, lock, metricVars, signalVars,
                    stressVars, postVars, aggVars >>

\* faulty variant: a failed pipeline task discards the results collected so far
process_frames_collect_discarding(d) ==
    /\ MainRuns /\ pc = "process"
    /\ d \in Keys(frames) \ collected
    /\ ppc[d] \in {"done", "failed"}
    /\ results' = IF ppc[d] = "done" THEN Put(results, d, pres[d][1]) ELSE <<>>
    /\ collected' = collected \cup {d}
    /\ pres' = [pres EXCEPT ![d] = <<>>]
    /\ UNCHANGED << pc, cycle_id, running, cameras, frames, aggCalls, report, captureVars,
                    ppc, pdets, ptmp, inference_count, lock, metricVars, signalVars,
                    stressVars, postVars, aggVars >>

\* one iteration of "for future in as_completed(future_to_camera)" in
\* _process_frames: the result is stored, an exception is logged and dropped
process_frames_collect(d) ==
    /\ MainRuns /\ pc = "process"
    /\ d \in Keys(frames) \ collected
    /\ ppc[d] \in {"done", "failed"}
    /\ results' = IF ppc[d] = "done" THEN Put(results, d, pres[d][1]) ELSE results
    /\ collected' = collected \cup {d}
    /\ pres' = [pres EXCEPT ![d] = <<>>]
    /\ UNCHANGED << pc, cycle_id, running, cameras, frames, aggCalls, report, captureVars,
                    ppc, pdets, ptmp, inference_count, lock, metricVars, signalVars,
                    stressVars, postVars, aggVars >>

\* faulty variant: _process_frames returns on the first collected task, the
\* other pipeline tasks still running
process_frames_return_early ==
    /\ MainRuns /\ pc = "process"
    /\ collected # {}
    /\ aggCalls' = Append(aggCalls, Keys(results))
    /\ IF results = <<>>
       THEN /\ pc' = "record_failure"
            /\ UNCHANGED report
       ELSE /\ report' = << generate_report(cycle_id, results, aggregate(results)) >>
            /\ pc' = "record_cycle"
    /\ UNCHANGED << cameras, cycle_id, running, frames, collected, results, captureVars,
                    pipeVars, lock, metricVars, signalVars, stressVars, postVars, aggVars >>

\* faulty variant: a failed pipeline task aborts the cycle
process_frames_return_aborting ==
    /\ MainRuns /\ pc = "process"
    /\ collected = Keys(frames)
    /\ IF Keys(results) # Keys(frames)
       THEN /\ pc' = "record_failure"
            /\ UNCHANGED << aggCalls, report >>
       ELSE /\ aggCalls' = Append(aggCalls, Keys(results))
            /\ report' = << generate_report(cycle_id, results, aggregate(results)) >>
            /\ pc' = "record_cycle"
    /\ UNCHANGED << cameras, cycle_id, running, frames, collected, results, captureVars,
                    pipeVars, lock, metricVars, signalVars, stressVars, postVars, aggVars >>

\* _process_frames returns; aggregator.aggregate(camera_results) raises ValueError
\* on an empty dict, otherwise generate_report builds the report
process_frames_return ==
    /\ MainRuns /\ pc = "process"
    /\ collected = Keys(frames)
    /\ aggCalls' = Append(aggCalls, Keys(results))
    /\ IF results = <<>>
       THEN /\ pc' = "record_failure"
            /\ UNCHANGED report
       ELSE /\ report' = << generate_report(cycle_id, results, aggregate(results)) >>
            /\ pc' = "record_cycle"
    /\ UNCHANGED << cameras, cycle_id, running, frames, collected, results, captureVars,
                    pipeVars, lock, metricVars, signalVars, stressVars, postVars, aggVars >>

(* --------------------- metrics writes of execute_cycle ----------------- *)

\* metrics.record_cycle(report): "with self._lock:" is entered
record_cycle_enter ==
    /\ MainRuns /\ pc = "record_cycle"
    /\ lock_acquire("main")
    /\ pc' = "in_record_cycle"
    /\ UNCHANGED << cameras, cycle_id, running, frames, collected, results, aggCalls, report,
                    captureVars, pipeVars, metricVars, signalVars, stressVars, postVars, aggVars >>

\* the four appends, the lock is released, execute_cycle returns the report
record_cycle_exit ==
    /\ MainRuns /\ pc = "in_record_cycle"
    /\ decisions' = Append(decisions, report[1].decision)
    /\ defect_counts' = Append(defect_counts, report[1].defects_found)
    /\ quality_scores' = Append(quality_scores, report[1].aggregated_score)
    /\ lock_release
    /\ pc' = "returned"
    /\ UNCHANGED << cameras, cycle_id, running, frames, collected, results, aggCalls, report,
                    captureVars, pipeVars, camera_failures, total_failures,
                    signalVars, stressVars, postVars, aggVars >>

\* "except Exception" of execute_cycle: metrics.record_failure() enters the lock
record_failure_enter ==
    /\ MainRuns /\ pc = "record_failure"
    /\ lock_acquire("main")
    /\ pc' = "in_record_failure"
    /\ UNCHANGED << cameras, cycle_id, running, frames, collected, results, aggCalls, report,
                    captureVars, pipeVars, metricVars, signalVars, stressVars, postVars, aggVars >>

\* faulty variant: the except branch re-raises without counting the failure
record_failure_exit_uncounted ==
    /\ MainRuns /\ pc = "in_record_failure"
    /\ lock_release
    /\ pc' = "raised"
    /\ UNCHANGED << cameras, cycle_id, running, frames, collected, results, aggCalls,
                    report, captureVars, pipeVars, metricVars, signalVars, stressVars,
                    postVars, aggVars >>

\* total_failures += 1, the lock is released, execute_cycle re-raises
record_failure_exit ==
    /\ MainRuns /\ pc = "in_record_failure"
    /\ total_failures' = total_failures + 1
    /\ lock_release
    /\ pc' = "raised"
    /\ UNCHANGED << cameras, cycle_id, running, frames, collected, results, aggCalls, report,
                    captureVars, pipeVars, decisions, defect_counts, quality_scores,
                    camera_failures, signalVars, stressVars, postVars, aggVars >>

(* ------------------------------ run loop, end of a cycle --------------- *)

\* nothing of the finished execute_cycle call is alive any more
cycle_locals_dropped ==
    /\ frames' = <<>> /\ collected' = {} /\ results' = <<>>
    /\ aggCalls' = <<>> /\ report' = <<>>
    /\ ppc' = [d \in Devices |-> "idle"]

\* run_cycles prints the cycle's result line and goes on
run_cycles_print ==
    /\ MainRuns /\ pc = "returned"
    /\ pc' = "loop"
    /\ cycle_locals_dropped
    /\ UNCHANGED << cameras, cycle_id, running, captureVars, pdets, ptmp, pres,
                    inference_count, lock, metricVars, signalVars, stressVars, postVars, aggVars >>

\* faulty variant: the cycle's exception ends the loop instead of being skipped
run_cycles_except_stopping ==
    /\ MainRuns /\ pc = "raised"
    /\ pc' = "loop"
    /\ running' = FALSE
    /\ cycle_locals_dropped
    /\ UNCHANGED << cameras, cycle_id, captureVars, pdets, ptmp, pres,
                    inference_count, lock, metricVars, signalVars, stressVars, postVars, aggVars >>

\* "except Exception" of run_cycles: the error line is printed, the loop goes on
run_cycles_except ==
    /\ MainRuns /\ pc = "raised"
    /\ pc' = "loop"
    /\ cycle_locals_dropped
    /\ UNCHANGED << cameras, cycle_id, running, captureVars, pdets, ptmp, pres,
                    inference_count, lock, metricVars, signalVars, stressVars, postVars, aggVars >>

\* the loop is over: _print_summary calls get_summary, which enters the lock
print_summary_enter ==
    /\ MainRuns /\ pc = "loop" /\ (cycle_id = NumCycles \/ ~running)
    /\ lock_acquire("main")
    /\ pc' = "in_summary"
    /\ UNCHANGED << cameras, cycle_id, running, frames, collected, results, aggCalls, report,
                    captureVars, pipeVars, metricVars, signalVars, stressVars, postVars, aggVars >>

\* get_summary returns, the summary is printed, run_cycles returns
print_summary_exit ==
    /\ MainRuns /\ pc = "in_summary"
    /\ printed' = Append(printed, get_summary)
    /\ lock_release
    /\ pc' = "finished"
    /\ UNCHANGED << cameras, cycle_id, running, frames, collected, results, aggCalls, report,
                    captureVars, pipeVars, metricVars, sigpc, stressVars, postVars, aggVars >>

(* ------------------------------ SIGINT handler ------------------------- *)

\* SIGINT arrives while run_cycles executes: _signal_handler starts on the main
\* thread, on top of whatever the main thread was doing
sigint ==
    /\ sigpc = "none" /\ pc # "finished"
    /\ running' = FALSE
    /\ sigpc' = "summary"
    /\ UNCHANGED << cameras, pc, cycle_id, frames, collected, results, aggCalls, report,
                    captureVars, pipeVars, lock, metricVars, printed, stressVars, postVars, aggVars >>

\* the handler's _print_summary: get_summary enters the (non-reentrant) lock
handler_summary_enter ==
    /\ sigpc = "summary"
    /\ lock_acquire("handler")
    /\ sigpc' = "in_summary"
    /\ UNCHANGED << mainVars, captureVars, pipeVars, metricVars, printed, stressVars, postVars, aggVars >>

\* the summary is printed, sys.exit(0) raises SystemExit in the main thread
handler_summary_exit ==
    /\ sigpc = "in_summary"
    /\ printed' = Append(printed, get_summary)
    /\ lock_release
    /\ sigpc' = "exiting"
    /\ UNCHANGED << mainVars, captureVars, pipeVars, metricVars, stressVars, postVars, aggVars >>

\* SystemExit unwinds the main thread (no "except Exception" catches it); the
\* executor's shutdown and the interpreter's exit wait for the worker threads
process_exit ==
    /\ sigpc = "exiting"
    /\ \A d \in Devices :
          /\ ~Unfinished(d)
          /\ ppc[d] \in {"idle", "done", "failed"}
    /\ sigpc' = "terminated"
    /\ UNCHANGED << mainVars, captureVars, pipeVars, lock, metricVars, printed,
                    stressVars, postVars, aggVars >>

(* ------------------------------ specification -------------------------- *)

MainStep ==
    \/ run_cycles_next
    \/ \E d \in Devices : parallel_capture_collect(d)
    \/ parallel_capture_return
    \/ \E d \in Devices : process_frames_collect(d)
    \/ process_frames_return
    \/ record_cycle_enter
    \/ record_cycle_exit
    \/ record_failure_enter
    \/ record_failure_exit
    \/ run_cycles_print
    \/ run_cycles_except
    \/ print_summary_enter
    \/ print_summary_exit

CaptureStep(d) ==
    \/ camera_capture_ok(d)
    \/ camera_capture_raise(d)
    \/ camera_capture_hang(d)

PipelineStep(d) ==
    \/ pipeline_preprocess(d)
    \/ pipeline_infer(d)
    \/ pipeline_count_load(d)
    \/ pipeline_count_store(d)
    \/ pipeline_postprocess(d)
    \/ pipeline_raise(d)

HandlerStep ==
    \/ handler_summary_enter
    \/ handler_summary_exit
    \/ process_exit

\* runs of run_cycles that no SIGINT interrupts
Next ==
    \/ MainStep
    \/ \E d \in Devices : CaptureStep(d)
    \/ \E d \in Devices : PipelineStep(d)
    \/ timeout_elapses

Spec == Init /\ [][Next]_vars

\* runs in which a SIGINT may arrive at any point
NextSig ==
    \/ Next
    \/ sigint
    \/ HandlerStep

SigSpec == Init /\ [][NextSig]_vars

\* the thread scheduler lets every thread that can take a step take one
Fairness ==
    /\ WF_vars(MainStep)
    /\ \A d \in Devices : WF_vars(CaptureStep(d)) /\ WF_vars(PipelineStep(d))

FairSpec == Spec /\ Fairness

(* ------------- InspectionController with any list of cameras ---------- *)

\* InspectionController(cameras) constructed with any non-empty list of distinct
\* cameras
InitController ==
    /\ InitOrchestrator
    /\ cameras \in (SUBSET Devices) \ {{}}
    /\ InitMetrics
    /\ InitNoStress
    /\ InitNoPost
    /\ InitNoAgg

ControllerSpec == InitController /\ [][Next]_vars

(* --------------- MetricsCollector under concurrent callers ------------- *)

\* a fresh MetricsCollector and NumThreads threads about to call it
InitStress ==
    /\ InitOrchestrator
    /\ cameras = Devices
    /\ InitMetrics
    /\ spc = [t \in StressThreads |-> [at |-> "idle", op |-> "none"]]
    /\ sleft = [t \in StressThreads |-> CallsPerThread]
    /\ stmp = [t \in StressThreads |-> 0]
    /\ issued = [op \in StressOps |-> 0]
    /\ InitNoPost
    /\ InitNoAgg

\* thread t calls record_failure() (op = "record_failure") or
\* record_camera_failure(op) (op a camera id)
stress_call(t, op) ==
    /\ spc[t].at = "idle" /\ sleft[t] > 0
    /\ spc' = [spc EXCEPT ![t] = [at |-> "enter", op |-> op]]
    /\ sleft' = [sleft EXCEPT ![t] = @ - 1]
    /\ issued' = [issued EXCEPT ![op] = @ + 1]
    /\ UNCHANGED << mainVars, captureVars, pipeVars, lock, metricVars, signalVars, stmp,
                    postVars, aggVars >>

\* "with self._lock:"
stress_enter(t) ==
    /\ spc[t].at = "enter"
    /\ lock_acquire(t)
    /\ spc' = [spc EXCEPT ![t].at = "load"]
    /\ UNCHANGED << mainVars, captureVars, pipeVars, metricVars, signalVars,
                    sleft, stmp, issued, postVars, aggVars >>

\* "+= 1", the load
stress_load(t) ==
    /\ spc[t].at = "load"
    /\ stmp' = [stmp EXCEPT ![t] = IF spc[t].op = "record_failure" THEN total_failures
                                  ELSE camera_failures[spc[t].op]]
    /\ spc' = [spc EXCEPT ![t].at = "store"]
    /\ UNCHANGED << mainVars, captureVars, pipeVars, lock, metricVars, signalVars,
                    sleft, issued, postVars, aggVars >>

\* "+= 1", the store; the with block is left and the lock released
stress_store(t) ==
    /\ spc[t].at = "store"
    /\ IF spc[t].op = "record_failure"
       THEN /\ total_failures' = stmp[t] + 1
            /\ UNCHANGED camera_failures
       ELSE /\ camera_failures' = [camera_failures EXCEPT ![spc[t].op] = stmp[t] + 1]
            /\ UNCHANGED total_failures
    /\ lock_release
    /\ stmp' = [stmp EXCEPT ![t] = 0]
    /\ spc' = [spc EXCEPT ![t] = [at |-> "idle", op |-> "none"]]
    /\ UNCHANGED << mainVars, captureVars, pipeVars, decisions, defect_counts,
                    quality_scores, signalVars, sleft, issued, postVars, aggVars >>

NextStress ==
    \/ \E t \in StressThreads : \E op \in StressOps : stress_call(t, op)
    \/ \E t \in StressThreads : stress_enter(t)
    \/ \E t \in StressThreads : stress_load(t)
    \/ \E t \in StressThreads : stress_store(t)

StressSpec == InitStress /\ [][NextStress]_vars

(* ------------------- Postprocessor.process on its own ------------------ *)

\* detections in the list process is called with (the program draws 0..4)
MaxListLen == 2

\* confidences of the detections process is called with: below, at and above
\* CONFIDENCE_THRESHOLD, and the two ends of every severity band
ConfidenceInputs ==
    {65000, 69999, 70000, 79999, 80000, 89999, 90000, 99999, 100000}

\* the lists process is called with, built as _generate_detections builds them
DetectionLists ==
    { [i \in 1..Len(conf) |->
          [detection_id |-> << 0, i - 1 >>, confidence |-> conf[i]]] :
        conf \in UNION { [1..n -> ConfidenceInputs] : n \in 0..MaxListLen } }

\* a Postprocessor about to process one inference result
InitPost ==
    /\ InitOrchestrator
    /\ cameras = Devices
    /\ InitMetrics
    /\ InitNoStress
    /\ InitNoAgg
    /\ post_pc = "filter"
    /\ post_in \in DetectionLists
    /\ post_list = <<>> /\ post_result = <<>>

\* filtered = self._filter_detections(detections)
process_filter ==
    /\ post_pc = "filter"
    /\ post_list' = filter_detections(post_in)
    /\ post_pc' = "classify"
    /\ UNCHANGED << mainVars, captureVars, pipeVars, lock, metricVars, signalVars,
                    stressVars, post_in, post_result, aggVars >>

\* classified = self._classify_severity(filtered)
process_classify ==
    /\ post_pc = "classify"
    /\ post_list' = classify_severity(post_list)
    /\ post_pc' = "score"
    /\ UNCHANGED << mainVars, captureVars, pipeVars, lock, metricVars, signalVars,
                    stressVars, post_in, post_result, aggVars >>

\* quality_score = self._calculate_quality_score(classified); the result dict
\* is returned
process_score ==
    /\ post_pc = "score"
    /\ post_result' = << [camera_id           |-> "CAM_01",
                          detections          |-> post_list,
                          quality_score       |-> calculate_quality_score(post_list),
                          total_detections    |-> Len(post_in),
                          filtered_detections |-> Len(post_list)] >>
    /\ post_pc' = "returned"
    /\ UNCHANGED << mainVars, captureVars, pipeVars, lock, metricVars, signalVars,
                    stressVars, post_in, post_list, aggVars >>

NextPost ==
    \/ process_filter
    \/ process_classify
    \/ process_score

PostSpec == InitPost /\ [][NextPost]_vars

(* ------------------ ResultAggregator.aggregate on its own -------------- *)

\* per-camera quality scores aggregate is called with: both sides of
\* PASS_THRESHOLD, the threshold itself, and the ends of the score range
ScoreInputs == {0, 60000, 74999, 75000, 90000, 100000}

\* per-camera detection lists aggregate is called with: none, or one detection
\* of each severity band
AggDetections ==
    { classify_severity(
          [i \in 1..Len(conf) |->
              [detection_id |-> << 0, i - 1 >>, confidence |-> conf[i]]]) :
        conf \in UNION { [1..n -> {75000, 85000, 95000}] : n \in 0..1 } }

\* the per-camera results a camera_results dict may hold for camera d
CameraResults(d) ==
    { [key |-> d,
       value |-> [camera_id           |-> d,
                  detections          |-> dets,
                  quality_score       |-> score,
                  total_detections    |-> Len(dets),
                  filtered_detections |-> Len(dets)]] :
        dets \in AggDetections, score \in ScoreInputs }

\* the camera_results dicts aggregate is called with: any cameras, in any
\* insertion order, the empty dict included
CameraResultDicts ==
    { dict \in UNION { [1..n -> UNION { CameraResults(d) : d \in Devices }] :
                         n \in 0..Cardinality(Devices) } :
        \A i, j \in 1..Len(dict) : i # j => dict[i].key # dict[j].key }

\* a ResultAggregator about to aggregate one camera_results dict
InitAgg ==
    /\ InitOrchestrator
    /\ cameras = Devices
    /\ InitMetrics
    /\ InitNoStress
    /\ InitNoPost
    /\ agg_pc = "call"
    /\ agg_in \in CameraResultDicts
    /\ agg_result = <<>>
    /\ agg_report = <<>>

\* faulty variant: the empty dict is aggregated like any other (the score of
\* no cameras is 0.0)
aggregate_raise_missing ==
    /\ agg_pc = "call"
    /\ agg_in = <<>>
    /\ agg_result' = << aggregate(agg_in) >>
    /\ agg_pc' = "returned"
    /\ UNCHANGED << mainVars, captureVars, pipeVars, lock, metricVars, signalVars,
                    stressVars, postVars, agg_in, agg_report >>

\* "if not camera_results: raise ValueError"
aggregate_raise ==
    /\ agg_pc = "call"
    /\ agg_in = <<>>
    /\ agg_pc' = "raised"
    /\ UNCHANGED << mainVars, captureVars, pipeVars, lock, metricVars, signalVars,
                    stressVars, postVars, agg_in, agg_result, agg_report >>

\* the result dict is built and returned
aggregate_return ==
    /\ agg_pc = "call"
    /\ agg_in # <<>>
    /\ agg_result' = << aggregate(agg_in) >>
    /\ agg_pc' = "returned"
    /\ UNCHANGED << mainVars, captureVars, pipeVars, lock, metricVars, signalVars,
                    stressVars, postVars, agg_in, agg_report >>

\* InspectionReporter.generate_report on the dict aggregate returned, as
\* execute_cycle calls it
reporter_generate_report ==
    /\ agg_pc = "returned"
    /\ agg_report' = << generate_report(0, agg_in, agg_result[1]) >>
    /\ agg_pc' = "reported"
    /\ UNCHANGED << mainVars, captureVars, pipeVars, lock, metricVars, signalVars,
                    stressVars, postVars, agg_in, agg_result >>

NextAgg ==
    \/ aggregate_raise
    \/ aggregate_return
    \/ reporter_generate_report

AggSpec == InitAgg /\ [][NextAgg]_vars

(* ============================== claims ================================= *)

\* execute_cycle is past _parallel_capture
AfterCapture ==
    pc \in {"process", "record_cycle", "in_record_cycle", "returned",
            "record_failure", "in_record_failure", "raised"}

\* execute_cycle is in its "except Exception" branch, or has re-raised
CycleFailing == pc \in {"record_failure", "in_record_failure", "raised"}

\* execute_cycle has a report and is recording or returning it
CycleReporting == pc \in {"record_cycle", "in_record_cycle", "returned"}

\* C1: a device whose capture task was still running when MAX_CYCLE_TIMEOUT
\* elapsed is absent from the capture-stage mapping, even if the task later
\* returns a frame.
C1_TimedOutDeviceAbsent ==
    \A d \in Devices : timedOut[d] => d \notin Keys(frames)

\* C2: a capture task that never returns does not block the cycle: once the
\* capture stage has started, execute_cycle eventually returns or raises.
C2_CycleCompletes ==
    [](pc = "capture" => <>(pc \in {"returned", "raised"}))

\* C3: a device that contributed no unit to the capture-stage mapping has had
\* its camera-failure count incremented (record_camera_failure was called).
C3_NoUnitIsRecorded ==
    AfterCapture =>
        \A d \in Devices : d \notin Keys(frames) => camera_failures[d] >= 1

C5_EmptyCaptureFailsCycle ==
    (AfterCapture /\ frames = <<>>) =>
        /\ CycleFailing
        /\ \A d \in Devices : ppc[d] = "idle" /\ pdets[d] = <<>> /\ pres[d] = <<>>
        /\ results = <<>> /\ aggCalls = <<>> /\ report = <<>>
        /\ Len(decisions) + total_failures =
               IF pc = "raised" THEN cycle_id ELSE cycle_id - 1

\* a second cycle failed on an empty capture after a first one that reported
C5_Witness ==
    /\ pc = "raised" /\ frames = <<>>
    /\ cycle_id = 2 /\ Len(decisions) = 1 /\ total_failures = 1

\* C6: when the pipeline fails for one unit and succeeds for another, the results
\* mapping holds exactly the devices whose pipeline succeeded, every sibling task
\* has run to completion, and the cycle returns a report with no failure recorded.
C6_PipelineFailureIsolated ==
    ( /\ AfterCapture /\ pc # "process"
      /\ \E d \in Keys(frames) : ppc[d] = "failed"
      /\ \E d \in Keys(frames) : ppc[d] = "done" ) =>
        /\ \A d \in Keys(frames) : ppc[d] \in {"done", "failed"}
        /\ Keys(results) = { d \in Keys(frames) : ppc[d] = "done" }
        /\ CycleReporting
        /\ report # <<>>
        /\ report[1].cameras_used = Cardinality(Keys(results))
        /\ Len(decisions) + total_failures =
               IF pc = "returned" THEN cycle_id ELSE cycle_id - 1
        /\ pc = "returned" => decisions[Len(decisions)] = report[1].decision

\* a cycle returned a report built from one device while the other's pipeline failed
C6_Witness ==
    /\ pc = "returned"
    /\ Keys(frames) = Devices
    /\ \E d \in Devices : ppc[d] = "failed"
    /\ Cardinality(Keys(results)) = 1
    /\ total_failures = 0

\* C7: _capture_with_retry returns the frame of the first successful attempt k
\* (k <= MaxRetries) after exactly k capture() calls, k - 1 of them failed, and
\* returns None after exactly MaxRetries failed calls.
C7_RetryWrapper ==
    \A d \in Devices :
        /\ cpc[d] \in {"idle", "running", "hung", "done"}
        /\ cpc[d] = "running" => (calls[d] = attempt[d] /\ attempt[d] < MaxRetries)
        /\ (cpc[d] = "done" /\ Truthy(cres[d])) =>
               (calls[d] = attempt[d] + 1 /\ calls[d] <= MaxRetries
                /\ cres[d].camera_id = d)
        /\ (cpc[d] = "done" /\ ~Truthy(cres[d])) =>
               (calls[d] = MaxRetries /\ attempt[d] = MaxRetries - 1)

\* one device succeeded on its last attempt, the other exhausted its attempts
C7_Witness ==
    \E d, e \in Devices :
        /\ cpc[d] = "done" /\ Truthy(cres[d]) /\ calls[d] = MaxRetries
        /\ cpc[e] = "done" /\ cres[e] = None /\ calls[e] = MaxRetries

\* C8: no shared object other than the metrics sink is written by two tasks that
\* run at the same time: no two pipeline tasks are inside the unlocked
\* read-modify-write of InferenceEngine.inference_count together.
C8_NoConcurrentSharedWrite ==
    \A d, e \in Devices :
        (d # e /\ ppc[d] = "count_store") => ppc[e] # "count_store"

\* C9: no count is lost: every record_failure / record_camera_failure call that
\* has been issued is either still inside its call or counted.
C9_NoLostCount ==
    LET pending(op) == Cardinality({ t \in StressThreads : spc[t].op = op })
    IN  /\ total_failures + pending("record_failure") = issued["record_failure"]
        /\ \A d \in Devices : camera_failures[d] + pending(d) = issued[d]

\* every thread made all its calls, all of them record_failure, and none is lost
C9_Witness ==
    /\ \A t \in StressThreads : spc[t].at = "idle" /\ sleft[t] = 0
    /\ issued["record_failure"] = NumThreads * CallsPerThread
    /\ total_failures = NumThreads * CallsPerThread

\* C10: the SIGINT handler never waits for the metrics lock while the code it
\* interrupted holds that lock (the handler could then never go on to print
\* the summary and exit).
C10_HandlerNeverBlocked ==
    ~(sigpc = "summary" /\ lock = "main")

\* execute_cycle calls that have ended, by returning or by raising
CyclesEnded == Len(decisions) + total_failures

\* state part of C11: the cycle in progress is cycle_id, every earlier cycle has
\* ended exactly once, the loop can go on after a cycle that raised, and the
\* summary is printed once, after cycle NumCycles
C11_LoopState ==
    /\ cycle_id \in 0..NumCycles
    /\ CyclesEnded = IF pc \in {"loop", "returned", "raised", "in_summary", "finished"}
                     THEN cycle_id ELSE cycle_id - 1
    /\ pc = "raised" => ENABLED run_cycles_except
    /\ pc = "loop" => IF cycle_id < NumCycles THEN ENABLED run_cycles_next
                      ELSE ENABLED print_summary_enter
    /\ pc \in {"in_summary", "finished"} => cycle_id = NumCycles
    /\ Len(printed) = IF pc = "finished" THEN 1 ELSE 0

\* step part of C11: cycle_id changes only when the loop starts execute_cycle
\* for the next id; a cycle that raised is followed by the loop, and the loop by
\* the next cycle until cycle NumCycles has ended
C11_LoopStep ==
    /\ cycle_id' # cycle_id =>
           (cycle_id' = cycle_id + 1 /\ pc = "loop" /\ pc' = "capture")
    /\ (pc = "raised" /\ pc' # "raised") => pc' = "loop"
    /\ (pc = "loop" /\ pc' # "loop") =>
           IF cycle_id < NumCycles THEN pc' = "capture" ELSE pc' = "in_summary"

\* C11: without interruption run_cycles calls execute_cycle once for each id
\* 1..NumCycles in increasing order; a cycle that raised is followed by the next
\* cycle, or after the last one by the summary, which is printed exactly once.
C11_RunLoopContinues ==
    /\ []C11_LoopState
    /\ [][C11_LoopStep]_vars

\* the first cycle raised, the last one reported, and the summary was printed
C11_Witness ==
    /\ pc = "finished" /\ cycle_id = NumCycles
    /\ total_failures >= 1 /\ Len(decisions) >= 1
    /\ decisions # <<>> /\ Len(printed) = 1
    /\ printed[1].failed_cycles = total_failures

\* C12: whenever get_summary can be called (the lock is free), the summary it
\* returns has failed_cycles equal to the record_failure events so far and
\* camera_failures equal to the per-device record_camera_failure counts,
\* whatever the number of recorded cycles.
C12_SummaryReportsState ==
    lock = "free" =>
        /\ get_summary.failed_cycles = total_failures
        /\ get_summary.camera_failures = camera_failures

\* C13: every detection that survived the filter carries exactly one severity:
\* minor for a confidence in [0.7, 0.8), major in [0.8, 0.9) and critical in
\* [0.9, 1.0], the upper end 1.0 included.
C13_SeverityBands ==
    post_pc \in {"score", "returned"} =>
        \A i \in 1..Len(post_list) :
            LET c == post_list[i].confidence IN
              /\ c >= 70000 /\ c <= One
              /\ (70000 <= c /\ c < 80000) => post_list[i].severity = "minor"
              /\ (80000 <= c /\ c < 90000) => post_list[i].severity = "major"
              /\ (90000 <= c /\ c <= One)  => post_list[i].severity = "critical"

\* C16: the quality score process returns is max(0, 1 - sum of the severity
\* weights of the surviving detections) with minor 0.1, major 0.3, critical 0.6;
\* it lies in [0, 1] and is exactly 1.0 when no detection survived.
C16_QualityScore ==
    post_pc = "returned" =>
        LET r == post_result[1]
            n(sev) == Cardinality({ i \in 1..Len(r.detections) :
                                      r.detections[i].severity = sev })
            p == 10000 * n("minor") + 30000 * n("major") + 60000 * n("critical")
        IN  /\ \A i \in 1..Len(r.detections) :
                   r.detections[i].severity \in {"minor", "major", "critical"}
            /\ r.quality_score = IF p >= One THEN 0 ELSE One - p
            /\ r.quality_score >= 0 /\ r.quality_score <= One
            /\ r.detections = <<>> => r.quality_score = One

\* two critical detections survived (penalty 1.2) and the score is 0.0
C16_Witness ==
    /\ post_pc = "returned"
    /\ Len(post_result[1].detections) = 2
    /\ \A i \in 1..2 : post_result[1].detections[i].severity = "critical"
    /\ post_result[1].quality_score = 0

\* C17: the detections of the result are exactly the input detections whose
\* confidence is >= 0.7, in input order: none below 0.7 is in it, and none at
\* or above 0.7 (0.7 itself included) is dropped.
C17_SurvivingSet ==
    post_pc = "returned" =>
        LET out == post_result[1].detections
            pos(i) == out[i].detection_id[2] + 1
        IN  /\ \A i \in 1..Len(out) :
                   /\ pos(i) \in 1..Len(post_in)
                   /\ out[i].detection_id = post_in[pos(i)].detection_id
                   /\ out[i].confidence = post_in[pos(i)].confidence
                   /\ out[i].confidence >= 70000
            /\ \A i, j \in 1..Len(out) : i < j => pos(i) < pos(j)
            /\ \A k \in 1..Len(post_in) :
                   post_in[k].confidence >= 70000 =>
                       \E i \in 1..Len(out) : pos(i) = k
            /\ post_result[1].total_detections = Len(post_in)
            /\ post_result[1].filtered_detections = Len(out)

\* of a detection just below the threshold and one exactly at it, only the
\* second survived
C17_Witness ==
    /\ post_pc = "returned"
    /\ Len(post_in) = 2
    /\ post_in[1].confidence = 69999 /\ post_in[2].confidence = 70000
    /\ Len(post_result[1].detections) = 1
    /\ post_result[1].detections[1].detection_id = << 0, 1 >>

\* C14: in every result aggregate returns, the decision is PASS exactly when
\* the result's aggregated_score is >= 0.75, and FAIL otherwise.
C14_DecisionMatchesScore ==
    agg_pc = "returned" =>
        /\ agg_result[1].decision \in {"PASS", "FAIL"}
        /\ agg_result[1].decision = "PASS" <=>
               agg_result[1].aggregated_score >= 75000

\* C15: the aggregated_score aggregate returns for a non-empty dict is the
\* minimum of the dict's per-camera quality scores.
C15_ScoreIsMinimum ==
    agg_pc = "returned" =>
        /\ \A i \in 1..Len(agg_in) :
               agg_result[1].aggregated_score <= agg_in[i].value.quality_score
        /\ \E i \in 1..Len(agg_in) :
               agg_result[1].aggregated_score = agg_in[i].value.quality_score

\* C18: aggregate called with the empty dict raises and returns no result.
C18_EmptyInputRaises ==
    (agg_in = <<>> /\ agg_pc # "call") =>
        (agg_pc = "raised" /\ agg_result = <<>>)

\* aggregate was called with the empty dict and has raised
C18_Witness ==
    agg_pc = "raised" /\ agg_in = <<>> /\ agg_result = <<>>

\* state part of C19: after a capture stage that gave a frame for every camera
\* and a pipeline stage in which every task succeeded, the result mapping has
\* one entry per camera and the report's cameras_used is the camera count
C19_AllResults ==
    ( /\ AfterCapture /\ pc # "process"
      /\ Keys(frames) = cameras
      /\ \A d \in cameras : ppc[d] = "done" ) =>
        /\ Keys(results) = cameras
        /\ Len(results) = Cardinality(cameras)
        /\ CycleReporting
        /\ report # <<>>
        /\ report[1].cameras_used = Cardinality(cameras)

\* step part of C19: a capture stage in which every camera's first capture()
\* call returned a frame ends with one frame per camera and starts one
\* pipeline task per camera
C19_AllFrames ==
    ( /\ pc = "capture" /\ pc' # "capture"
      /\ \A d \in cameras : calls[d] = 1 /\ cpc[d] = "done" /\ Truthy(cres[d]) ) =>
        /\ pc' = "process"
        /\ Keys(frames') = cameras
        /\ Len(frames') = Cardinality(cameras)
        /\ \A d \in cameras : frames'[CHOOSE i \in 1..Len(frames') :
                                        frames'[i].key = d].value.camera_id = d
        /\ \A d \in Devices : ppc'[d] = IF d \in cameras THEN "preprocess" ELSE "idle"

\* C19: for every number D >= 1 of distinct cameras, a cycle in which every
\* camera's first capture attempt succeeds and every pipeline task succeeds has a
\* capture mapping and a result mapping of exactly D entries, one per camera,
\* and a report with cameras_used = D.
C19_OneEntryPerDevice ==
    /\ [][C19_AllFrames]_vars
    /\ []C19_AllResults

\* a cycle over both cameras returned a report built from both
C19_Witness ==
    /\ pc = "returned"
    /\ cameras = Devices
    /\ Keys(frames) = Devices /\ Keys(results) = Devices
    /\ frame_count = [d \in Devices |-> 1]
    /\ report[1].cameras_used = 2

\* C20: no device ever has two capture tasks alive: during the capture stage
\* each camera has at most the one task of this cycle, and outside the capture
\* stage (so when the next cycle submits its tasks) no capture task is alive.
C20_OneTaskPerDevice ==
    \A d \in Devices :
        /\ active[d] <= 1
        /\ active[d] = IF Unfinished(d) THEN 1 ELSE 0
        /\ pc # "capture" => active[d] = 0
        /\ d \notin cameras => active[d] = 0

\* the second cycle has its one task running on every camera, after a first
\* cycle that used a camera
C20_Witness ==
    /\ pc = "capture" /\ cycle_id = 2
    /\ \A d \in cameras : active[d] = 1 /\ cpc[d] = "running"
    /\ \E d \in cameras : frame_count[d] >= 1

\* a dict read as a mapping: its entries listed in one fixed order of the camera
\* ids, whatever the order they were inserted in
ByCamera(dict) ==
    LET order == CHOOSE o \in [1..Cardinality(Devices) -> Devices] :
                     \A i, j \in 1..Cardinality(Devices) : i # j => o[i] # o[j]
        keys  == SelectSeq(order, LAMBDA d : d \in Keys(dict))
    IN  [i \in 1..Len(keys) |-> [key |-> keys[i], value |-> Get(dict, keys[i])]]

\* state part of C21: the capture mapping holds, for the tasks collected so far,
\* exactly the devices whose task returned a frame, each with that frame; the
\* result mapping exactly the devices whose pipeline task succeeded; and the
\* aggregated outcome in the report is the one of the result mapping read as a
\* mapping
C21_MappingsAndOutcome ==
    /\ Len(frames) = Cardinality(Keys(frames))
    /\ Len(results) = Cardinality(Keys(results))
    /\ pc = "capture" =>
           /\ Keys(frames) \subseteq collected
           /\ \A d \in collected :
                  /\ d \in Keys(frames) <=> Truthy(cres[d])
                  /\ d \in Keys(frames) => Get(frames, d) = cres[d]
    /\ pc = "process" =>
           /\ Keys(results) \subseteq collected
           /\ \A d \in collected : d \in Keys(results) <=> ppc[d] = "done"
    /\ report # <<>> =>
           LET a == aggregate(ByCamera(results)) IN
             /\ report[1].aggregated_score   = a.aggregated_score
             /\ report[1].decision           = a.decision
             /\ report[1].defects_found      = a.total_defects
             /\ report[1].severity_breakdown = a.severity_counts
             /\ report[1].cameras_used       = a.cameras_used

\* step part of C21: a pipeline result is stored under its own device with the
\* value its task returned, and the entries stored before are kept
C21_ResultStored ==
    \A d \in Devices :
        (d \notin Keys(results) /\ d \in Keys(results')) =>
            /\ pres[d] # <<>>
            /\ Get(results', d) = pres[d][1]
            /\ \A e \in Keys(results) : Get(results', e) = Get(results, e)

\* C21: the outcome of a cycle does not depend on the order in which its tasks
\* finish: the capture mapping, the result mapping and the aggregated outcome
\* are determined by the per-device outcomes alone.
C21_OrderIndependent ==
    /\ []C21_MappingsAndOutcome
    /\ [][C21_ResultStored]_vars

\* a report built from two results that arrived in the other order than the
\* fixed one, the first arrival with the higher score
C21_Witness ==
    /\ pc = "returned" /\ Len(results) = 2
    /\ results[1].key # ByCamera(results)[1].key
    /\ results[1].value.quality_score > results[2].value.quality_score
    /\ report[1].aggregated_score = results[2].value.quality_score

\* state part of C22: the recorded cycles and the recorded failures together
\* count the execute_cycle calls that have ended, and the cycle lists grow together
C22_Count ==
    /\ Len(defect_counts) = Len(decisions)
    /\ Len(quality_scores) = Len(decisions)
    /\ CyclesEnded = IF pc \in {"capture", "process", "record_cycle", "in_record_cycle",
                                  "record_failure", "in_record_failure"}
                     THEN cycle_id - 1 ELSE cycle_id

\* step part of C22: the step on which execute_cycle returns records one cycle
\* and no failure, the step on which it raises records one failure and no
\* cycle, and no other step writes to the metrics
C22_EndStep ==
    LET returns == pc # "returned" /\ pc' = "returned"
        raises  == pc # "raised" /\ pc' = "raised"
    IN  /\ returns =>
               /\ decisions' = Append(decisions, report[1].decision)
               /\ defect_counts' = Append(defect_counts, report[1].defects_found)
               /\ quality_scores' = Append(quality_scores, report[1].aggregated_score)
               /\ total_failures' = total_failures
        /\ raises =>
               /\ total_failures' = total_failures + 1
               /\ UNCHANGED << decisions, defect_counts, quality_scores >>
        /\ (~returns /\ ~raises) => UNCHANGED metricVars

\* C22: every execute_cycle call that completes either returns a report and
\* records exactly one cycle, or raises and records exactly one failure; the
\* recorded cycles plus total_failures equal the cycles executed.
C22_OneOutcomePerCycle ==
    /\ []C22_Count
    /\ [][C22_EndStep]_vars

\* the last cycle raised on an empty result mapping after earlier cycles that
\* all reported
C22_Witness ==
    /\ pc = "raised" /\ cycle_id = NumCycles
    /\ frames # <<>> /\ results = <<>>
    /\ total_failures = 1 /\ Len(decisions) = NumCycles - 1

\* C23: in every cycle the devices of the result mapping are among those of the
\* capture mapping, which are among the configured cameras; when the capture
\* stage has collected every task, the capture mapping holds exactly the
\* devices whose retry wrapper returned a frame; and the entry under a device
\* id was produced by that device (its id, its current frame number).
C23_MappingsNested ==
    /\ Keys(results) \subseteq Keys(frames)
    /\ Keys(frames) \subseteq cameras
    /\ cameras \subseteq Devices
    /\ (pc = "capture" /\ collected = cameras) =>
           Keys(frames) = { d \in cameras : cpc[d] = "done" /\ Truthy(cres[d]) }
    /\ \A i \in 1..Len(frames) :
           /\ frames[i].value.camera_id = frames[i].key
           /\ frames[i].value.frame_number = frame_count[frames[i].key]
    /\ \A i \in 1..Len(results) :
           results[i].value.camera_id = results[i].key

\* of two configured cameras one gave no frame; the cycle reported on the other
C23_Witness ==
    /\ pc = "returned" /\ cameras = Devices
    /\ Cardinality(Keys(frames)) = 1
    /\ Keys(results) = Keys(frames)
    /\ results[1].value.camera_id = frames[1].key

\* state part of C24: a pipeline task exists only for a device with a captured
\* unit, and during the pipeline stage every captured unit has one
C24_TaskPerUnit ==
    /\ \A d \in Devices : ppc[d] # "idle" => d \in Keys(frames)
    /\ pc = "process" => \A d \in Keys(frames) : ppc[d] # "idle"

\* step part of C24: a pipeline task starts only when _process_frames submits
\* it, and one that has ended (with a result or an exception) stays ended until
\* the cycle is over
C24_NoRestart ==
    \A d \in Devices :
        /\ (ppc'[d] = "preprocess" /\ ppc[d] # "preprocess") =>
               (ppc[d] = "idle" /\ pc = "capture" /\ pc' = "process")
        /\ (ppc[d] \in {"done", "failed"} /\ ppc'[d] # ppc[d]) =>
               (ppc'[d] = "idle" /\ pc \in {"returned", "raised"} /\ pc' = "loop")

\* C24: the pipeline runs exactly once for every captured unit of a cycle and
\* never for a device without one; a unit whose pipeline attempt failed is not
\* attempted again in that cycle.
C24_NoPipelineRetry ==
    /\ []C24_TaskPerUnit
    /\ [][C24_NoRestart]_vars

\* every task of the pipeline stage has been collected, one of them failed, and
\* the camera without a captured unit had no task
C24_Witness ==
    /\ pc = "process" /\ collected = Keys(frames)
    /\ \E d \in Keys(frames) : ppc[d] = "failed"
    /\ \E e \in Devices \ Keys(frames) : ppc[e] = "idle"

\* C25: the detections of different infer calls never carry the same
\* detection_id, and once n infer calls have completed (none in progress on the
\* counter) inference_count equals n; the count is stated for the first cycle,
\* where the completed calls can be read off the tasks.
C25_UniqueDetectionIds ==
    LET ids(dets) == { dets[i].detection_id : i \in 1..Len(dets) }
        held(d) == ids(pdets[d])
                   \cup (IF pres[d] = <<>> THEN {} ELSE ids(pres[d][1].detections))
                   \cup (IF d \in Keys(results) THEN ids(Get(results, d).detections)
                         ELSE {})
        completed == { d \in Devices : ppc[d] \in {"postprocess", "done"} }
    IN  /\ \A d, e \in Devices : d # e => held(d) \cap held(e) = {}
        /\ ( /\ cycle_id = 1
              /\ \A d \in Devices : ppc[d] \notin {"count_load", "count_store", "failed"} )
               => inference_count = Cardinality(completed)

\* state part of C26: a device has captured at most one frame per cycle, and a
\* frame held by its task or by the capture mapping carries the device's
\* current count
C26_CurrentNumber ==
    \A d \in Devices :
        /\ frame_count[d] \in 0..cycle_id
        /\ (cpc[d] = "done" /\ Truthy(cres[d])) =>
               (cres[d].frame_number = frame_count[d] /\ frame_count[d] >= 1)
        /\ d \in Keys(frames) => Get(frames, d).frame_number = frame_count[d]

\* step part of C26: the count of a device moves only by one, on the capture()
\* call that returns a frame carrying the new count; a capture() call that
\* fails leaves it
C26_CountStep ==
    \A d \in Devices :
        /\ frame_count'[d] # frame_count[d] =>
               /\ frame_count'[d] = frame_count[d] + 1
               /\ calls'[d] = calls[d] + 1
               /\ cpc'[d] = "done"
               /\ cres'[d] = [camera_id |-> d, frame_number |-> frame_count[d] + 1]
        /\ (calls'[d] = calls[d] + 1 /\ ~(cpc'[d] = "done" /\ Truthy(cres'[d]))) =>
               frame_count'[d] = frame_count[d]

\* C26: the frames one device captures carry the numbers 1, 2, 3, ..., one more
\* per successful capture across cycles and retries, and a failed capture
\* attempt does not advance the device's counter.
C26_SequenceNumbers ==
    /\ []C26_CurrentNumber
    /\ [][C26_CountStep]_vars

\* in the second cycle a device captured its second frame on its second attempt
C26_Witness ==
    \E d \in Devices :
        /\ cycle_id = 2 /\ cpc[d] = "done"
        /\ calls[d] = 2 /\ cres[d].frame_number = 2

\* C27: in a report the minor, major and critical counts sum to defects_found,
\* defects_found is the sum of the per-camera defects_found of the cameras in
\* the pipeline-result mapping, and each severity count is the number of
\* detections of that severity over all those cameras.
C27_HistogramCoversDefects ==
    agg_report # <<>> =>
        LET r == agg_report[1]
            n == Len(agg_in)
            with(i, sev) == { j \in 1..Len(agg_in[i].value.detections) :
                                agg_in[i].value.detections[j].severity = sev }
        IN  /\ Keys(r.cameras) = Keys(agg_in)
            /\ r.severity_breakdown["minor"] + r.severity_breakdown["major"]
                   + r.severity_breakdown["critical"] = r.defects_found
            /\ r.defects_found =
                   SeqSum([i \in 1..Len(r.cameras) |-> r.cameras[i].value.defects_found])
            /\ \A i \in 1..n :
                   Get(r.cameras, agg_in[i].key).defects_found
                       = Len(agg_in[i].value.detections)
            /\ \A sev \in {"minor", "major", "critical"} :
                   r.severity_breakdown[sev]
                       = SeqSum([i \in 1..n |-> Cardinality(with(i, sev))])

\* a report over two cameras with one detection each, of different severities
C27_Witness ==
    /\ agg_report # <<>>
    /\ Len(agg_in) = 2
    /\ agg_report[1].defects_found = 2
    /\ agg_report[1].severity_breakdown["major"] = 1
    /\ agg_report[1].severity_breakdown["critical"] = 1

\* the order in which _process_single_frame passes its stages (infer is the
\* three positions infer, count_load, count_store), a raising stage call ending
\* the task, and a finished task being dropped with its executor
StageOrder ==
    { << "idle", "preprocess" >>, << "preprocess", "infer" >>,
      << "infer", "count_load" >>, << "count_load", "count_store" >>,
      << "count_store", "postprocess" >>, << "postprocess", "done" >>,
      << "preprocess", "failed" >>, << "infer", "failed" >>,
      << "postprocess", "failed" >>,
      << "done", "idle" >>, << "failed", "idle" >> }

\* state part of C28: while a pipeline task exists no capture task is
\* unfinished or executing
C28_CaptureOver ==
    (\E d \in Devices : ppc[d] # "idle") =>
        \A e \in Devices : ~Unfinished(e) /\ active[e] = 0

\* step part of C28: a pipeline task starts only when _parallel_capture
\* returns with every capture task finished, it moves along StageOrder only,
\* and aggregate is called only with every pipeline task finished
C28_StageStep ==
    /\ \A d \in Devices :
           /\ ppc'[d] # ppc[d] => << ppc[d], ppc'[d] >> \in StageOrder
           /\ (ppc[d] = "idle" /\ ppc'[d] # "idle") =>
                  /\ pc = "capture" /\ pc' = "process"
                  /\ collected = cameras
                  /\ \A e \in Devices : ~Unfinished(e) /\ active[e] = 0
    /\ aggCalls' # aggCalls =>
           \A d \in Devices :
               ppc[d] \in (IF d \in Keys(frames) THEN {"done", "failed"} ELSE {"idle"})

\* C28: no pipeline task starts before every capture task of the cycle has
\* finished, the aggregator is called only after every pipeline task of the
\* cycle has finished, and one pipeline task passes its stages in the order
\* preprocess, infer, postprocess, one at a time.
C28_StageBarriers ==
    /\ []C28_CaptureOver
    /\ [][C28_StageStep]_vars

\* the aggregator has been called on the results of two pipeline tasks that
\* both passed all their stages
C28_Witness ==
    /\ pc = "record_cycle"
    /\ aggCalls # <<>>
    /\ Len(results) = 2
    /\ \A d \in Devices : ppc[d] = "done"

=============================================================================
